---- MODULE Spec2Model ----
(***************************************************************************)
(* Model of the container codec of package file (src/file/file.go, the     *)
(* current revision at lines 198-464): WriteFile, ReadFileHeader, ReadFile *)
(* and the FileHandle operations SetReadMode, Read, Close and WriteTo.     *)
(*                                                                         *)
(* Bytes are integers 0..255, byte streams are sequences of bytes.  The    *)
(* streams handed to the package are in-memory ones (bytes.Buffer as the   *)
(* destination, bytes.Reader as the source, as in file_test.go).           *)
(***************************************************************************)
EXTENDS Integers, Sequences, FiniteSets, TLC

\* ------------------------------------------------------------------ bounds
\* longest short text drawn for MimeType / OriginalName
MaxStrLen == 1
\* longest payload drawn for the source of WriteFile
MaxPayload == 2
\* largest buffer handed to FileHandle.Read
MaxBuf == 2
\* truncations of a stored container: cuts 0..MaxCutHead from the start
MaxCutHead == 5
\* truncations of a stored container: cuts this far around the payload offset
MaxCutNear == 1
\* nested calls the goroutine's stack holds before the runtime stops the
\* program (the runtime's limit is on the stack's size; a call takes a frame)
MaxStack == 3

\* ------------------------------------------------------- program constants
\* the magic byte, WriteFile writes it twice
MagicByte == 250
\* width in bytes of the upload time on the wire
TimeBytes == 5
\* width in bytes of a length prefix and of the header-length field
LenBytes == 2
\* the upload time of the test header
TestSeconds == 1481834107

\* a nil pointer, a pointer to x, and what a pointer points to
Nil == <<>>
Ptr(x) == <<x>>
Deref(p) == p[1]
Min(a, b) == IF a < b THEN a ELSE b
Max(a, b) == IF a > b THEN a ELSE b

\* a string or header of exactly this many bytes still fits a 16-bit count
BoundaryLen == 2^16 - 1

\* ------------------------------------------------------------ primitives
\* number >> shift on a Go uint holding a value of the int32 range (negative
\* values are the two's complement bit patterns)
Shr(number, shift) ==
  IF shift >= 31 THEN (IF number < 0 THEN -1 ELSE 0) ELSE number \div (2^shift)

\* uint64(b) << shift, b a byte
Shl(b, shift) == IF b = 0 THEN 0 ELSE b * (2^shift)

\* byte(x): the low 8 bits
byte(x) == x % 256

\* writeNumber: byteCount bytes, most significant first, high bits dropped
writeNumber(number, byteCount) ==
  [i \in 1..byteCount |-> byte(Shr(number, 8 * (byteCount - i)))]

\* writeLengthPrefixedString: 2-byte length (truncated to 16 bits), then the bytes
writeLengthPrefixedString(str) == writeNumber(Len(str), LenBytes) \o str

\* A reader is [data, pos]: pos bytes of data are consumed.
Remaining(r) == Len(r.data) - r.pos

\* (*bytes.Reader).Read into a buffer of n bytes: EOF when nothing is left,
\* otherwise copies what is there (possibly fewer than n) with no error;
\* the rest of the buffer keeps its zero bytes.
SourceRead(r, n) ==
  IF Remaining(r) <= 0
  THEN [n |-> 0, buf |-> [i \in 1..n |-> 0], err |-> "EOF", r |-> r]
  ELSE LET k == Min(n, Remaining(r))
       IN [n |-> k,
           buf |-> [i \in 1..n |-> IF i <= k THEN r.data[r.pos + i] ELSE 0],
           err |-> "none",
           r |-> [r EXCEPT !.pos = r.pos + k]]

\* (*bytes.Buffer).Read: as above, but an empty buffer read into a
\* zero-length slice returns no error.
BufferRead(r, n) ==
  IF Remaining(r) <= 0 /\ n = 0
  THEN [n |-> 0, buf |-> <<>>, err |-> "none", r |-> r]
  ELSE SourceRead(r, n)

RECURSIVE orBytes(_, _, _)
orBytes(bytez, byteCount, i) ==
  IF i > byteCount THEN 0
  ELSE Shl(bytez[i], 8 * (byteCount - i)) + orBytes(bytez, byteCount, i + 1)

\* readNumber over a reader whose Read is rd: one Read of byteCount bytes,
\* then the big-endian value of the buffer (zero bytes where the read was short)
readNumberFrom(got, byteCount) ==
  IF got.err # "none"
  THEN [number |-> 0, err |-> got.err, r |-> got.r]
  ELSE [number |-> orBytes(got.buf, byteCount, 1), err |-> "none", r |-> got.r]

readNumber(byteCount, in) == readNumberFrom(BufferRead(in, byteCount), byteCount)

readNumberSrc(byteCount, in) == readNumberFrom(SourceRead(in, byteCount), byteCount)

\* readLengthPrefixedString, after the read of the string's bytes
stringRead(got) ==
  IF got.err # "none"
  THEN [str |-> <<>>, err |-> got.err, r |-> got.r]
  ELSE [str |-> got.buf, err |-> "none", r |-> got.r]

\* readLengthPrefixedString, after the read of the length
stringOfLength(length) ==
  IF length.err # "none"
  THEN [str |-> <<>>, err |-> length.err, r |-> length.r]
  ELSE stringRead(BufferRead(length.r, length.number))

\* readLengthPrefixedString over the header buffer: the zero bytes of a
\* short read are part of the string
readLengthPrefixedString(in) == stringOfLength(readNumber(LenBytes, in))

\* ------------------------------------------------- compress/gzip, as used
\* The compressor and the decompressor are library code.  Their stream is
\* modelled with gzip's framing at reduced widths: a member header (the two
\* identification bytes and the method byte), deflate blocks (a byte with
\* the final-block flag, a length byte, the bytes stored), and a trailer (a
\* digest of the data and its size).
GzipHeader == <<31, 139, 8>>

StoredBlock(final, data) == <<final, Len(data) % 256>> \o data

RECURSIVE SumBytes(_)
SumBytes(s) == IF s = <<>> THEN 0 ELSE s[1] + SumBytes(Tail(s))

\* the digest gzip keeps of the uncompressed bytes (one byte wide here)
DigestOf(sum, size) == (sum + size * 7 + 1) % 256

GzipTrailer(data) == <<DigestOf(SumBytes(data), Len(data)), Len(data) % 256>>

\* what (*gzip.Writer).Flush writes after `data` was copied in: the header
\* (not written before), the pending data as one block, the sync block
GzipFlushOut(data) ==
  GzipHeader \o (IF data = <<>> THEN <<>> ELSE StoredBlock(0, data)) \o StoredBlock(0, <<>>)

\* what (*gzip.Writer).Close writes: the final block and the trailer
GzipCloseOut(data) == StoredBlock(1, <<>>) \o GzipTrailer(data)

\* ------------------------------------------------------------- FileHeader
\* time.Time as Unix seconds and the nanoseconds within the second
UnixTime(sec, nsec) == [sec |-> sec, nsec |-> nsec]

\* info.UploadDate.UnixNano()/10E8 for a time at or after the epoch:
\* (sec * 10^9 + nsec) \div 10^9
UnixSeconds(t) == t.sec + (t.nsec \div 1000000000)

FileHeader(date, key, mime, name) ==
  [UploadDate |-> date, ApiKeyID |-> key, MimeType |-> mime, OriginalName |-> name]

\* the zero value of FileHeader (its UploadDate is the zero time.Time)
ZeroTime == [zero |-> TRUE]
ZeroHeader == FileHeader(ZeroTime, 0, <<>>, <<>>)

\* ---------------------------------------------------------------- WriteFile
\* the encoded header WriteFile collects in headerBuffer
HeaderBuffer(info) ==
  writeNumber(UnixSeconds(info.UploadDate), TimeBytes)
    \o <<byte(info.ApiKeyID)>>
    \o writeLengthPrefixedString(info.MimeType)
    \o writeLengthPrefixedString(info.OriginalName)

\* a guard that tests the destination only (C8 rules it out)
WriteNilCheckDst(dstNil, srcNil) == dstNil

\* the guard at the top of WriteFile
WriteNilCheck(dstNil, srcNil) == dstNil \/ srcNil

\* io.Copy(compressionWriter, src): the source delivers failAt bytes and then
\* fails (failAt < 0: it never fails).  [n, err, data]
CopySource(B, failAt) ==
  IF failAt < 0 \/ failAt > Len(B)
  THEN [n |-> Len(B), err |-> "none", data |-> B]
  ELSE [n |-> failAt, err |-> "io", data |-> SubSeq(B, 1, failAt)]

\* the count WriteFile adds for the payload stage
PayloadCount(copied) == copied.n

\* the destination as a writer: the bytes it holds; it accepts cap bytes and
\* fails from then on (cap < 0: it never fails)
NewDst(cap) == [bytes |-> <<>>, cap |-> cap, failed |-> FALSE]

Accepted(w, p) ==
  IF w.failed THEN 0
  ELSE IF w.cap < 0 THEN Len(p)
  ELSE Min(Len(p), w.cap - Len(w.bytes))

\* dst.Write(p)
DstWrite(w, p) ==
  [w EXCEPT !.bytes = @ \o SubSeq(p, 1, Accepted(w, p)),
            !.failed = @ \/ Accepted(w, p) < Len(p)]

\* the calls a function has deferred, in the order of the defer statements,
\* run when it returns: last deferred, first run
Reverse(stack) == [i \in 1..Len(stack) |-> stack[Len(stack) + 1 - i]]

\* the deferred calls run in the order of their defer statements (C11 rules
\* it out)
RunInOrder(stack) == stack

RunDeferred(stack) == <<>> \o Reverse(stack)

\* the defer statements of WriteFile, in program order
WriteFileDefers == <<"Close", "Flush">>

\* the error io.Copy(compressionWriter, src) returns: the compressor's first
\* Write sends the stream header to dst, the source's error comes after it
CopyError(w, copied) ==
  IF copied.n > 0 /\ DstWrite(w, GzipHeader).failed THEN "io" ELSE copied.err

\* WriteFile at the payload stage, w the destination holding the magic, the
\* header-length field and the header: the compressor is opened over dst,
\* the source is copied into it, and the deferred calls run when the
\* function returns; a compressor that failed to write writes no more
WritePayload(w, headerBuffer, copied) ==
  [dst |-> DstWrite(w, GzipFlushOut(copied.data) \o GzipCloseOut(copied.data)).bytes,
   nWritten |-> 2 + LenBytes + Len(headerBuffer)
                  + (IF CopyError(w, copied) = "none" THEN PayloadCount(copied) ELSE 0),
   err |-> CopyError(w, copied),
   stage |-> IF CopyError(w, copied) = "none" THEN "done" ELSE "payload",
   dstFailed |->
     DstWrite(w, GzipFlushOut(copied.data) \o GzipCloseOut(copied.data)).failed,
   srcRead |-> copied.n,
   compLog |-> <<"NewWriter">>
                 \o (IF copied.n > 0 THEN <<"Write">> ELSE <<>>)
                 \o RunDeferred(WriteFileDefers)]

\* WriteFile returns early, before the payload stage, with the count so far
returnedEarly(bytes, nWritten, err, stage) ==
  [dst |-> bytes, nWritten |-> nWritten, err |-> err, stage |-> stage,
   dstFailed |-> err = "io", srcRead |-> 0, compLog |-> <<>>]

\* headerBuffer.WriteTo(dst) returned
headerWritten(w, headerBuffer, copied) ==
  IF w.failed THEN returnedEarly(w.bytes, 2 + LenBytes, "io", "header")
  ELSE WritePayload(w, headerBuffer, copied)

\* writeNumber(uint(headLength), 2, dst) returned
lengthWritten(w, headerBuffer, copied) ==
  IF w.failed THEN returnedEarly(w.bytes, 2, "io", "length")
  ELSE headerWritten(DstWrite(w, headerBuffer), headerBuffer, copied)

\* dst.Write of the magic returned
magicWritten(w, headerBuffer, copied) ==
  IF w.failed THEN returnedEarly(w.bytes, 0, "io", "magic")
  ELSE lengthWritten(DstWrite(w, writeNumber(Len(headerBuffer), LenBytes)),
                     headerBuffer, copied)

\* WriteFile(dst, info, src), dst accepting cap bytes: what was written to
\* dst, the returned count and error, the stage reached, the bytes taken
\* from src and the compressor's calls in order
WriteFileResult(dstNil, srcNil, info, B, failAt, cap) ==
  IF WriteNilCheck(dstNil, srcNil)
  THEN returnedEarly(<<>>, 0, "nil", "nil")
  ELSE IF dstNil
  THEN \* dst.Write on a nil interface
       returnedEarly(<<>>, 0, "panic", "magic")
  ELSE magicWritten(DstWrite(NewDst(cap), <<MagicByte, MagicByte>>),
                    HeaderBuffer(info),
                    IF srcNil THEN [n |-> 0, err |-> "panic", data |-> <<>>]
                    ELSE CopySource(B, failAt))

\* ------------------------------------------------------------ ReadFileHeader
\* the magic test of ReadFileHeader: TRUE when the file is refused
BadMagic(twoBytes) == twoBytes[1] # twoBytes[2] /\ twoBytes[1] # MagicByte

\* headerBuf.ReadByte()
ReadByte(r) ==
  IF Remaining(r) <= 0 THEN [b |-> 0, err |-> "EOF", r |-> r]
  ELSE [b |-> r.data[r.pos + 1], err |-> "none", r |-> [r EXCEPT !.pos = r.pos + 1]]

\* the decoding of the header bytes, field by field; a failing field leaves
\* the fields after it at their zero values
decodeName(date, key, mime, name) ==
  IF name.err # "none"
  THEN [header |-> FileHeader(date, key, mime, <<>>), err |-> name.err]
  ELSE [header |-> FileHeader(date, key, mime, name.str), err |-> "none"]

decodeMime(date, key, mime) ==
  IF mime.err # "none"
  THEN [header |-> FileHeader(date, key, <<>>, <<>>), err |-> mime.err]
  ELSE decodeName(date, key, mime.str, readLengthPrefixedString(mime.r))

decodeKey(date, key) ==
  IF key.err # "none"
  THEN [header |-> FileHeader(date, 0, <<>>, <<>>), err |-> key.err]
  ELSE decodeMime(date, key.b, readLengthPrefixedString(key.r))

decodeTime(secondsTime) ==
  IF secondsTime.err # "none"
  THEN [header |-> ZeroHeader, err |-> secondsTime.err]
  ELSE decodeKey(UnixTime(secondsTime.number, 0), ReadByte(secondsTime.r))

DecodeHeader(headerBytes) ==
  decodeTime(readNumber(TimeBytes, [data |-> headerBytes, pos |-> 0]))

\* ReadFileHeader(src): [header, err, stage, r]; stage names the read that failed
headerDecoded(dec, r) ==
  [header |-> dec.header, err |-> dec.err,
   stage |-> IF dec.err = "none" THEN "done" ELSE "decode", r |-> r]

headerBytesRead(headerBytes) ==
  IF headerBytes.err # "none"
  THEN [header |-> ZeroHeader, err |-> headerBytes.err, stage |-> "header",
        r |-> headerBytes.r]
  ELSE headerDecoded(DecodeHeader(headerBytes.buf), headerBytes.r)

headerLengthRead(headerLength) ==
  IF headerLength.err # "none"
  THEN [header |-> ZeroHeader, err |-> headerLength.err, stage |-> "length",
        r |-> headerLength.r]
  ELSE headerBytesRead(SourceRead(headerLength.r, headerLength.number))

magicRead(two) ==
  IF two.err # "none"
  THEN [header |-> ZeroHeader, err |-> two.err, stage |-> "magic", r |-> two.r]
  ELSE IF BadMagic(two.buf)
  THEN [header |-> ZeroHeader, err |-> "badmagic", stage |-> "magic", r |-> two.r]
  ELSE headerLengthRead(readNumberSrc(LenBytes, two.r))

ReadFileHeader(src) == magicRead(SourceRead(src, 2))

\* ------------------------------------------------------------- gzip.Reader
GzipHeaderLen == Len(GzipHeader)
GzipTrailerLen == Len(GzipTrailer(<<>>))

\* readHeader of gzip.Reader: [err, r]
GzipReadHeader(raw) ==
  IF Remaining(raw) < GzipHeaderLen
  THEN [err |-> IF Remaining(raw) <= 0 THEN "EOF" ELSE "unexpectedEOF",
        r |-> [raw EXCEPT !.pos = Len(raw.data)]]
  ELSE [err |-> IF SubSeq(raw.data, raw.pos + 1, raw.pos + GzipHeaderLen) = GzipHeader
                THEN "none" ELSE "badheader",
        r |-> [raw EXCEPT !.pos = raw.pos + GzipHeaderLen]]

\* a fresh decompressor: nothing decoded, no error, empty digest
FreshReader == [toRead |-> <<>>, ferr |-> "none", zerr |-> "none", sum |-> 0, size |-> 0]

\* gzip.NewReader(rawSource): reads the member header from the raw source
newReaderOf(h) ==
  [err |-> h.err, decompress |-> IF h.err = "none" THEN Ptr(FreshReader) ELSE Nil, r |-> h.r]

NewReader(raw) == newReaderOf(GzipReadHeader(raw))

\* the inflater's step: decode stored blocks from the raw source until one
\* holds data, the final block is passed, or the stream is malformed
RECURSIVE ParseBlocks(_)
ParseBlocks(raw) ==
  IF Remaining(raw) < 1
  THEN [r |-> raw, toRead |-> <<>>, ferr |-> "unexpectedEOF"]
  ELSE
  LET hdr == raw.data[raw.pos + 1]
      final == hdr = 1
  IN IF hdr > 1
     THEN [r |-> [raw EXCEPT !.pos = raw.pos + 1], toRead |-> <<>>, ferr |-> "corrupt"]
     ELSE IF Remaining(raw) < 2
     THEN [r |-> [raw EXCEPT !.pos = Len(raw.data)], toRead |-> <<>>, ferr |-> "unexpectedEOF"]
     ELSE
     LET n == raw.data[raw.pos + 2]
         at == [raw EXCEPT !.pos = raw.pos + 2]
     IN IF Remaining(at) < n
        THEN [r |-> [raw EXCEPT !.pos = Len(raw.data)], toRead |-> <<>>,
              ferr |-> "unexpectedEOF"]
        ELSE IF n > 0
        THEN [r |-> [at EXCEPT !.pos = at.pos + n],
              toRead |-> SubSeq(at.data, at.pos + 1, at.pos + n),
              ferr |-> IF final THEN "EOF" ELSE "none"]
        ELSE IF final THEN [r |-> at, toRead |-> <<>>, ferr |-> "EOF"]
        ELSE ParseBlocks(at)

\* (*gzip.Reader).Read into a buffer of k >= 1 bytes, the decompressor d
\* reading from the raw source: [bytes, err, d, r]
gzipFail(d, err, r) ==
  [bytes |-> <<>>, err |-> err, d |-> [d EXCEPT !.ferr = "EOF", !.zerr = err], r |-> r]

gzipDeliver(d, f, got) ==
  [bytes |-> got, err |-> "none",
   d |-> [d EXCEPT !.toRead = SubSeq(f.toRead, Len(got) + 1, Len(f.toRead)),
                   !.ferr = f.ferr,
                   !.sum = (d.sum + SumBytes(got)) % 256,
                   !.size = d.size + Len(got)],
   r |-> f.r]

RECURSIVE GzipRead(_, _, _)
\* the trailer was read and verified: the next member's header, or the end
gzipNextMember(d, h, k) ==
  IF h.err # "none" THEN gzipFail(d, h.err, h.r) ELSE GzipRead(FreshReader, h.r, k)

\* the inflater reported the end of the deflate stream: the trailer
gzipTrailer(d, r, k) ==
  IF Remaining(r) < GzipTrailerLen
  THEN gzipFail(d, "unexpectedEOF", [r EXCEPT !.pos = Len(r.data)])
  ELSE IF SubSeq(r.data, r.pos + 1, r.pos + GzipTrailerLen)
            # <<DigestOf(d.sum, d.size), d.size % 256>>
  THEN gzipFail(d, "checksum", [r EXCEPT !.pos = r.pos + GzipTrailerLen])
  ELSE gzipNextMember(d, GzipReadHeader([r EXCEPT !.pos = r.pos + GzipTrailerLen]), k)

\* f: what the inflater holds after its step
gzipInflated(d, f, k) ==
  IF f.toRead # <<>>
  THEN gzipDeliver(d, f, SubSeq(f.toRead, 1, Min(k, Len(f.toRead))))
  ELSE IF f.ferr # "EOF"
  THEN [bytes |-> <<>>, err |-> f.ferr,
        d |-> [d EXCEPT !.ferr = f.ferr, !.zerr = f.ferr], r |-> f.r]
  ELSE gzipTrailer(d, f.r, k)

GzipRead(d, raw, k) ==
  IF d.zerr # "none" THEN [bytes |-> <<>>, err |-> d.zerr, d |-> d, r |-> raw]
  ELSE IF d.toRead # <<>> \/ d.ferr # "none"
  THEN gzipInflated(d, [r |-> raw, toRead |-> d.toRead, ferr |-> d.ferr], k)
  ELSE gzipInflated(d, ParseBlocks(raw), k)

\* ---------------------------------------------------------------- ReadMode
DecompressReadMode == 0
RawReadMode == 1
\* the values a caller can pass for the mode (ReadMode is a uint8)
ReadModes == {DecompressReadMode, RawReadMode, RawReadMode + 1}

\* a SetReadMode that builds a decompressor at every switch to decompress
\* mode (C7 rules it out)
RebuildsDecompressor(handle) == TRUE

\* SetReadMode builds the decompressor only while the handle has none
NeedsDecompressor(handle) == handle.decompressSource = Nil

\* a SetReadMode that keeps a failed construction for the next Read to
\* report (C10 rules it out)
constructedDeferred(handle, nr) ==
  [handle |-> [handle EXCEPT !.rawSource = nr.r,
                             !.decompressSource =
                               IF nr.err # "none"
                               THEN Ptr([FreshReader EXCEPT !.zerr = nr.err])
                               ELSE nr.decompress,
                             !.currentSource = "decompress"],
   res |-> "ok", why |-> "none", built |-> 1]

\* SetReadMode(DecompressReadMode) on a handle without a decompressor, nr
\* what gzip.NewReader returned
constructed(handle, nr) ==
  IF nr.err # "none"
  THEN [handle |-> [handle EXCEPT !.rawSource = nr.r],
        res |-> "panic", why |-> nr.err, built |-> 0]
  ELSE [handle |-> [handle EXCEPT !.rawSource = nr.r,
                                  !.decompressSource = nr.decompress,
                                  !.currentSource = "decompress"],
        res |-> "ok", why |-> "none", built |-> 1]

\* SetReadMode(mode) on a handle: [handle, res, why, built]; res is "ok", or
\* "panic" when the function panics (with the decompressor's error, or on a
\* bad mode); built counts the decompressor constructed
SetReadModeResult(handle, mode) ==
  IF mode = DecompressReadMode
  THEN IF NeedsDecompressor(handle)
       THEN constructed(handle, NewReader(handle.rawSource))
       ELSE [handle |-> [handle EXCEPT !.currentSource = "decompress"],
             res |-> "ok", why |-> "none", built |-> 0]
  ELSE IF mode = RawReadMode
  THEN [handle |-> [handle EXCEPT !.currentSource = "raw"],
        res |-> "ok", why |-> "none", built |-> 0]
  ELSE [handle |-> handle, res |-> "panic", why |-> "bad mode passed", built |-> 0]

\* the zero FileHandle (also stands for the nil handle ReadFile(nil) returns)
NilHandle ==
  [Header |-> ZeroHeader, decompressSource |-> Nil,
   rawSource |-> [data |-> <<>>, pos |-> 0], currentSource |-> "nil"]

\* a ReadFile that switches the handle to decompress mode as it opens it
\* (C6 rules it out)
openedDecompressing(h, fresh) ==
  IF h.err # "none"
  THEN [handle |-> fresh, err |-> h.err, stage |-> h.stage]
  ELSE [handle |-> SetReadModeResult(fresh, DecompressReadMode).handle,
        err |-> "none", stage |-> h.stage]

\* ReadFile past its guard, h what ReadFileHeader returned
opened(h, fresh) ==
  IF h.err # "none"
  THEN [handle |-> fresh, err |-> h.err, stage |-> h.stage]
  ELSE [handle |-> SetReadModeResult(fresh, RawReadMode).handle,
        err |-> "none", stage |-> h.stage]

headerRead(h) == opened(h, [NilHandle EXCEPT !.Header = h.header, !.rawSource = h.r])

\* ReadFile(src): [handle, err, stage]
ReadFileResult(srcNil, data) ==
  IF srcNil
  THEN [handle |-> NilHandle, err |-> "nil", stage |-> "nil"]
  ELSE headerRead(ReadFileHeader([data |-> data, pos |-> 0]))

\* ------------------------------------------------------------- Read, Close
\* handle.Read(bytes), len(bytes) = k: [bytes, err, res, handle]
rawRead(handle, got) ==
  [bytes |-> SubSeq(got.buf, 1, got.n), err |-> got.err, res |-> "ok",
   handle |-> [handle EXCEPT !.rawSource = got.r]]

decompressedRead(handle, got) ==
  [bytes |-> got.bytes, err |-> got.err, res |-> "ok",
   handle |-> [handle EXCEPT !.rawSource = got.r, !.decompressSource = Ptr(got.d)]]

ReadResult(handle, k) ==
  IF handle.currentSource = "raw"
  THEN rawRead(handle, SourceRead(handle.rawSource, k))
  ELSE IF handle.currentSource = "decompress"
  THEN decompressedRead(handle,
                        GzipRead(Deref(handle.decompressSource), handle.rawSource, k))
  ELSE \* a nil currentSource
       [bytes |-> <<>>, err |-> "none", res |-> "panic", handle |-> handle]

\* (*gzip.Reader).Close: the inflater's error unless it ended cleanly
GzipClose(d) == IF d.ferr = "EOF" THEN "none" ELSE d.ferr

\* handle.Close(), the raw source an io.Closer or not:
\* [handle, res, err, decClosed, rawClosed, decErr]
CloseResult(handle, closable) ==
  IF handle.decompressSource = Nil
  THEN \* handle.decompressSource.Close() on a nil *gzip.Reader
       [handle |-> handle, res |-> "panic", err |-> "none",
        decClosed |-> FALSE, rawClosed |-> FALSE, decErr |-> "none"]
  ELSE IF closable
  THEN [handle |-> handle, res |-> "ok", err |-> "none",
        decClosed |-> TRUE, rawClosed |-> TRUE,
        decErr |-> GzipClose(Deref(handle.decompressSource))]
  ELSE [handle |-> [handle EXCEPT !.currentSource = "nil"], res |-> "ok", err |-> "none",
        decClosed |-> TRUE, rawClosed |-> FALSE,
        decErr |-> GzipClose(Deref(handle.decompressSource))]

\* ------------------------------------------------------------------ WriteTo
\* *FileHandle has a WriteTo method (it implements io.WriterTo)
ImplementsWriterTo == TRUE

\* the read loop of io.Copy(w, handle), for a source that is no io.WriterTo:
\* handle.Read into a buffer until it returns an error, the bytes read
\* written to w.  [bytes, err, res, handle]
RECURSIVE CopyLoop(_, _)
copied(r, acc) ==
  IF r.res = "panic"
  THEN [bytes |-> acc, err |-> "none", res |-> "panic", handle |-> r.handle]
  ELSE IF r.err = "EOF"
  THEN [bytes |-> acc \o r.bytes, err |-> "none", res |-> "ok", handle |-> r.handle]
  ELSE IF r.err # "none"
  THEN [bytes |-> acc \o r.bytes, err |-> r.err, res |-> "ok", handle |-> r.handle]
  ELSE CopyLoop(r.handle, acc \o r.bytes)

CopyLoop(handle, acc) == copied(ReadResult(handle, MaxBuf), acc)

\* the deferred handle.Close() of WriteTo, run when io.Copy has returned or
\* panicked; the runtime's fatal error runs no deferred call.
\* [handle, res, err, why, sink, decClosed, rawClosed]
closedAfter(cp, c) ==
  [handle |-> c.handle,
   res |-> IF cp.res = "ok" THEN c.res ELSE cp.res,
   err |-> cp.err, why |-> "none", sink |-> cp.bytes,
   decClosed |-> c.decClosed, rawClosed |-> c.rawClosed]

deferredClose(cp, closable) ==
  IF cp.res = "fatal" THEN cp ELSE closedAfter(cp, CloseResult(cp.handle, closable))

\* handle.WriteTo(w), depth calls of it on the stack: io.Copy(w, handle)
\* hands the copy to the source's WriteTo when the source has one
RECURSIVE WriteToResult(_, _, _)
ioCopy(handle, closable, depth) ==
  IF ImplementsWriterTo
  THEN WriteToResult(handle, closable, depth + 1)
  ELSE CopyLoop(handle, <<>>)

WriteToResult(handle, closable, depth) ==
  IF depth > MaxStack
  THEN [handle |-> handle, res |-> "fatal", err |-> "none", why |-> "stack overflow",
        bytes |-> <<>>, sink |-> <<>>, decClosed |-> FALSE, rawClosed |-> FALSE]
  ELSE deferredClose(ioCopy(handle, closable, depth), closable)

\* ------------------------------------------------------------------ inputs
\* texts for MimeType and OriginalName: the prefixes of "image/png"
Text == <<105, 109, 97, 103, 101, 47, 112, 110, 103>>
Strings == {SubSeq(Text, 1, n) : n \in 0..Min(MaxStrLen, Len(Text))}
\* a text of exactly 65535 bytes
BoundaryString == [i \in 1..BoundaryLen |-> 97]

\* upload time and key: the test header's, and a time with a sub-second part
Stamps == {<<UnixTime(TestSeconds, 0), 1>>, <<UnixTime(1, 500000000), 255>>}

Headers ==
  {FileHeader(t[1], t[2], m, o) : t \in Stamps, m \in Strings, o \in Strings}
  \cup {FileHeader(UnixTime(TestSeconds, 0), 1, BoundaryString, <<>>),
        FileHeader(UnixTime(TestSeconds, 0), 1, <<>>, BoundaryString)}

\* payloads: the prefixes of a byte pattern
Pattern == <<250, 31, 0, 97, 255, 1>>
Payloads == {SubSeq(Pattern, 1, n) : n \in 0..Min(MaxPayload, Len(Pattern))}

\* where the source of WriteFile fails: never (-1), or after j bytes
FailPoints(B) == {-1} \cup 0..Len(B)

\* What the storage layer can hand back for a container c whose payload
\* starts at offset P: c itself, c cut short, c with other leading bytes, c
\* with a smaller header-length field, c with a damaged compressed stream.
\* the bytes a destination accepts before it fails, H the length of the
\* encoded header: never failing, or failing in the magic, in the
\* header-length field, in the header, in the compressed stream's header and
\* in its blocks; the headers of the length boundary are written to a
\* destination that never fails
DstCaps(H) ==
  IF H > BoundaryLen THEN {-1}
  ELSE {-1, 0, 2 + LenBytes - 1, 2 + LenBytes + H - 1, 2 + LenBytes + H + 1,
        2 + LenBytes + H + Len(GzipHeader) + 1}

MagicPairs == {<<0, 0>>, <<1, 1>>, <<MagicByte, 0>>, <<0, MagicByte>>, <<1, 2>>}

CutPoints(c, P) ==
  ((0..MaxCutHead) \cup ((P - MaxCutNear)..(P + MaxCutNear)) \cup {Len(c) - 1})
    \cap (0..(Len(c) - 1))

StoredStreams(c, P) ==
  {c}
  \cup {SubSeq(c, 1, n) : n \in CutPoints(c, P)}
  \cup {pair \o SubSeq(c, 3, Len(c)) : pair \in MagicPairs}
  \cup {SubSeq(c, 1, 2) \o writeNumber(c[3] * 256 + c[4] - 1, LenBytes) \o SubSeq(c, 5, Len(c))}
  \cup {[c EXCEPT ![P + 1] = 0]}

\* the 128 zero bytes of TestBadRead
ZeroStream == [i \in 1..128 |-> 0]

\* ------------------------------------------------------------------- state
\* A byte string is kept in the state as its length, the byte at its middle
\* and the positions that hold another byte; Unpack gives the bytes back.
PackAs(s, n, fill) ==
  [n |-> n, fill |-> fill, exc |-> [i \in {j \in 1..n : s[j] # fill} |-> s[i]]]

Pack(s) == PackAs(<<>> \o s, Len(s), IF Len(s) = 0 THEN 0 ELSE s[(Len(s) + 1) \div 2])

Unpack(p) == <<>> \o [i \in 1..p.n |-> IF i \in DOMAIN p.exc THEN p.exc[i] ELSE p.fill]

PackHeader(h) == [h EXCEPT !.MimeType = Pack(@), !.OriginalName = Pack(@)]
UnpackHeader(h) == [h EXCEPT !.MimeType = Unpack(@), !.OriginalName = Unpack(@)]

PackHandle(h) ==
  [h EXCEPT !.Header = PackHeader(@), !.rawSource = [@ EXCEPT !.data = Pack(@)]]
UnpackHandle(h) ==
  [h EXCEPT !.Header = UnpackHeader(@), !.rawSource = [@ EXCEPT !.data = Unpack(@)]]

VARIABLES
  pc,        \* "start", "written", "wfailed", "open", "rfailed", "closed", "crashed"
  info,      \* the FileHeader given to WriteFile (packed)
  payload,   \* the bytes of the source given to WriteFile
  dst,       \* the bytes WriteFile wrote to its destination (packed)
  wres,      \* what WriteFile returned and did: nWritten, err, stage, srcRead, compLog
  stream,    \* the bytes of the source given to ReadFile (packed)
  rres,      \* what ReadFile returned: err, stage
  handle,    \* the FileHandle (packed)
  closable,  \* the raw source is an io.Closer
  closed,    \* which of the decompressor and the raw source were closed
  out,       \* the bytes Read returned so far, per mode
  last,      \* the last handle operation: op, mode (the mode passed to SetReadMode,
             \* the handle's mode at a WriteTo), res, err, why
  nCtor,     \* decompressors constructed for the handle
  sink       \* the bytes WriteTo wrote to its writer

vars == <<pc, info, payload, dst, wres, stream, rres, handle, closable, closed, out,
          last, nCtor, sink>>

wvars == <<info, payload, dst, wres>>

\* the state's byte strings, unpacked (equal byte strings pack to equal values)
Info == UnpackHeader(info)
Dst == Unpack(dst)
Stream == Unpack(stream)
Handle == UnpackHandle(handle)

Init ==
  /\ pc = "start"
  /\ info = PackHeader(ZeroHeader)
  /\ payload = <<>>
  /\ dst = Pack(<<>>)
  /\ wres = [nWritten |-> 0, err |-> "unset", stage |-> "unset", dstFailed |-> FALSE,
             srcRead |-> 0, compLog |-> <<>>,
             dstNil |-> FALSE, srcNil |-> FALSE]
  /\ stream = Pack(<<>>)
  /\ rres = [err |-> "unset", stage |-> "unset", srcNil |-> FALSE]
  /\ handle = PackHandle(NilHandle)
  /\ closable = FALSE
  /\ closed = [dec |-> FALSE, raw |-> FALSE]
  /\ out = [raw |-> <<>>, dec |-> <<>>]
  /\ last = [op |-> "none", mode |-> -1, res |-> "none", err |-> "none", why |-> "none"]
  /\ nCtor = 0
  /\ sink = <<>>

\* ----------------------------------------------------------------- actions
\* WriteFile returns w
WriteFile(w, dstNil, srcNil, i, B) ==
  /\ pc = "start"
  /\ dst' = Pack(w.dst)
  /\ wres' = [nWritten |-> w.nWritten, err |-> w.err, stage |-> w.stage,
              dstFailed |-> w.dstFailed, srcRead |-> w.srcRead,
              compLog |-> w.compLog, dstNil |-> dstNil, srcNil |-> srcNil]
  /\ pc' = IF w.err = "none" THEN "written" ELSE "wfailed"
  /\ info' = PackHeader(i)
  /\ payload' = B
  /\ UNCHANGED <<stream, rres, handle, closable, closed, out, last, nCtor, sink>>

\* ReadFile returns r
ReadFile(r, srcNil, data) ==
  /\ handle' = PackHandle(r.handle)
  /\ rres' = [err |-> r.err, stage |-> r.stage, srcNil |-> srcNil]
  /\ pc' = IF r.err = "none" THEN "open" ELSE "rfailed"
  /\ stream' = Pack(data)
  /\ UNCHANGED <<wvars, closable, closed, out, last, nCtor, sink>>

\* ReadFile on what the storage layer returns for the written container,
\* the destination having accepted all of it
ReadStored ==
  /\ pc = "written" /\ ~wres.dstFailed
  /\ \E data \in StoredStreams(Dst, 2 + LenBytes + Len(HeaderBuffer(Info))) :
       ReadFile(ReadFileResult(FALSE, data), FALSE, data)

\* ReadFile as in TestBadRead: zero bytes, and a nil source
ReadBad ==
  /\ pc = "start"
  /\ \/ ReadFile(ReadFileResult(FALSE, ZeroStream), FALSE, ZeroStream)
     \/ ReadFile(ReadFileResult(TRUE, <<>>), TRUE, <<>>)

\* handle.SetReadMode(mode) has the outcome s
SetReadMode(s, mode) ==
  /\ pc = "open"
  /\ handle' = PackHandle(s.handle)
  /\ last' = [op |-> "SetReadMode", mode |-> mode, res |-> s.res, err |-> "none", why |-> s.why]
  /\ nCtor' = nCtor + s.built
  /\ pc' = IF s.res = "panic" THEN "crashed" ELSE pc
  /\ UNCHANGED <<wvars, stream, rres, closable, closed, out, sink>>

\* handle.Read returns r
Read(r) ==
  /\ pc = "open"
  /\ handle' = PackHandle(r.handle)
  /\ last' = [op |-> "Read", mode |-> -1, res |-> r.res, err |-> r.err, why |-> "none"]
  /\ out' = IF handle.currentSource = "raw"
            THEN [out EXCEPT !.raw = out.raw \o r.bytes]
            ELSE [out EXCEPT !.dec = out.dec \o r.bytes]
  /\ pc' = IF r.res = "panic" THEN "crashed" ELSE pc
  /\ UNCHANGED <<wvars, stream, rres, closable, closed, nCtor, sink>>

\* handle.Close has the outcome c; cl: the raw source is an io.Closer
Close(c, cl) ==
  /\ pc = "open"
  /\ closable' = cl
  /\ handle' = PackHandle(c.handle)
  /\ closed' = [dec |-> c.decClosed, raw |-> c.rawClosed]
  /\ last' = [op |-> "Close", mode |-> -1, res |-> c.res, err |-> c.err, why |-> c.decErr]
  /\ pc' = IF c.res = "panic" THEN "crashed" ELSE "closed"
  /\ UNCHANGED <<wvars, stream, rres, out, nCtor, sink>>

\* handle.WriteTo(w) has the outcome t; cl: the raw source is an io.Closer
WriteTo(t, cl) ==
  /\ pc = "open"
  /\ closable' = cl
  /\ handle' = PackHandle(t.handle)
  /\ sink' = t.sink
  /\ closed' = [dec |-> t.decClosed, raw |-> t.rawClosed]
  /\ last' = [op |-> "WriteTo", res |-> t.res, err |-> t.err, why |-> t.why,
              mode |-> IF handle.currentSource = "raw" THEN RawReadMode
                       ELSE DecompressReadMode]
  /\ pc' = IF t.res = "ok" THEN "closed" ELSE "crashed"
  /\ UNCHANGED <<wvars, stream, rres, out, nCtor>>

Next ==
  \/ /\ pc = "start"
     /\ \E dstNil \in BOOLEAN, srcNil \in BOOLEAN, i \in Headers, B \in Payloads :
          \E failAt \in FailPoints(B), cap \in DstCaps(Len(HeaderBuffer(i))) :
            WriteFile(WriteFileResult(dstNil, srcNil, i, B, failAt, cap),
                      dstNil, srcNil, i, B)
  \/ ReadStored
  \/ ReadBad
  \/ \E mode \in ReadModes : SetReadMode(SetReadModeResult(Handle, mode), mode)
  \/ \E k \in 1..MaxBuf : Read(ReadResult(Handle, k))
  \/ \E cl \in BOOLEAN : Close(CloseResult(Handle, cl), cl)
  \/ \E cl \in BOOLEAN : WriteTo(WriteToResult(Handle, cl, 1), cl)

Spec == Init /\ [][Next]_vars

\* ================================================================= claims
IsPrefix(a, b) == Len(a) <= Len(b) /\ a = SubSeq(b, 1, Len(a))

\* ReadFile was called on a source that is not nil
WasRead == rres.err # "unset" /\ ~rres.srcNil

\* ReadFile was called on exactly the bytes a successful WriteFile wrote
ReadBack == wres.err = "none" /\ WasRead /\ stream = dst

\* the headers agree, the upload time at whole-second precision
SameHeader(h, i) ==
  /\ h.UploadDate = UnixTime(UnixSeconds(i.UploadDate), 0)
  /\ h.ApiKeyID = i.ApiKeyID
  /\ h.MimeType = i.MimeType
  /\ h.OriginalName = i.OriginalName

\* the handle was read to the end of the stream in decompress mode, and in
\* no other mode
DecompressedToEnd ==
  /\ out.raw = <<>>
  /\ handle.currentSource = "decompress"
  /\ last.op = "Read" /\ last.err = "EOF"

\* C1: for every header and payload, ReadFile on what WriteFile wrote
\* succeeds, returns the header written (whole seconds), and reading the
\* handle to the end in decompress mode yields exactly the payload.
C1_RoundTrip ==
  ReadBack =>
    /\ rres.err = "none"
    /\ SameHeader(Handle.Header, Info)
    /\ (out.raw = <<>> => IsPrefix(out.dec, payload))
    /\ (DecompressedToEnd => out.dec = payload)

\* C2: a stream whose first two bytes are not both 0xFA is refused with the
\* bad-magic error at the magic check, with no header and no usable handle.
C2_MagicRejection ==
  (WasRead /\ Len(Stream) >= 2 /\ ~(Stream[1] = MagicByte /\ Stream[2] = MagicByte)) =>
    /\ rres.err = "badmagic" /\ rres.stage = "magic"
    /\ Handle.Header = ZeroHeader
    /\ pc = "rfailed"

\* the framing of a stream, as the format defines it
DeclaredH(s) == s[3] * 256 + s[4]
MimeLen(s) == s[11] * 256 + s[12]
NameLen(s) == s[13 + MimeLen(s)] * 256 + s[14 + MimeLen(s)]

\* fewer bytes than a framing field declares or requires
ShortFramed(s) ==
  \/ Len(s) < 2
  \/ Len(s) < 2 + LenBytes
  \/ Len(s) - 4 < DeclaredH(s)
  \/ DeclaredH(s) < TimeBytes
  \/ /\ DeclaredH(s) >= TimeBytes + 1 + LenBytes
     /\ \/ MimeLen(s) > DeclaredH(s) - (TimeBytes + 1 + LenBytes)
        \/ /\ DeclaredH(s) >= TimeBytes + 1 + 2 * LenBytes + MimeLen(s)
           /\ NameLen(s) > DeclaredH(s) - (TimeBytes + 1 + 2 * LenBytes + MimeLen(s))

\* C3: whenever fewer bytes are available than a framing field declares
\* or requires, ReadFile fails with an error.
C3_ShortReadRejected == (WasRead /\ ShortFramed(Stream)) => rres.err # "none"

\* C4: Close on an opened handle completes without crashing; it closes the
\* decompressor only if one was constructed, then the raw source if it is
\* closable, and returns the first error encountered.
C4_CloseCompletes ==
  last.op = "Close" =>
    /\ last.res = "ok"
    /\ closed.dec = (handle.decompressSource # Nil)
    /\ closed.raw = closable
    /\ (last.why # "none" => last.err = last.why)

\* C5: the count WriteFile returns is the number of bytes it wrote to the
\* destination (magic, header-length field, header, compressed payload).
C5_CountIsBytesWritten == wres.err = "none" => wres.nWritten = Len(Dst)

\* C6: after ReadFile the handle is in raw mode without a decompressor;
\* only SetReadMode(DecompressReadMode) constructs one; until then the
\* bytes read are the container's bytes from offset 4+H on, unmodified.
C6_LazyDecompression ==
  [][/\ (pc # "open" /\ pc' = "open") =>
          /\ handle'.currentSource = "raw"
          /\ handle'.decompressSource = Nil
          /\ nCtor' = 0
     /\ (handle.decompressSource = Nil /\ handle'.decompressSource # Nil) =>
          (last'.op = "SetReadMode" /\ last'.mode = DecompressReadMode)
     /\ (pc' = "open" /\ handle'.decompressSource = Nil) =>
          /\ out'.dec = <<>>
          /\ out'.raw = SubSeq(Stream', 4 + DeclaredH(Stream') + 1,
                               4 + DeclaredH(Stream') + Len(out'.raw))
    ]_vars

\* raw reads reached the end of an intact container, no decompressor built
C6_Witness ==
  /\ pc = "open" /\ Stream = Dst /\ handle.decompressSource = Nil
  /\ last.op = "Read" /\ last.err = "EOF"
  /\ Len(out.raw) = Len(Dst) - 4 - DeclaredH(Dst)
  /\ Len(payload) > 0

\* C7: the decompressor is constructed at most once per handle; a switch to
\* raw mode retains it, a later switch to decompress mode reuses it, and the
\* decompressed reads go on where they stopped.
C7_SingleDecompressor ==
  [][/\ nCtor' <= 1
     /\ (handle'.decompressSource # Nil) = (nCtor' = 1)
     /\ (handle.decompressSource # Nil /\ last'.op = "SetReadMode") =>
          /\ handle'.decompressSource = handle.decompressSource
          /\ handle'.rawSource = handle.rawSource
          /\ nCtor' = nCtor
     /\ (handle.decompressSource = Nil /\ last'.op = "SetReadMode"
           /\ last'.mode = DecompressReadMode /\ last'.res = "ok") => nCtor' = 1
     /\ (ReadBack' /\ out'.raw = <<>>) => IsPrefix(out'.dec, payload')
     /\ (ReadBack' /\ DecompressedToEnd') => out'.dec = payload'
    ]_vars

\* a second switch to decompress mode, in the middle of the payload
C7_Witness ==
  /\ ReadBack /\ nCtor = 1
  /\ last.op = "SetReadMode" /\ last.mode = DecompressReadMode /\ last.res = "ok"
  /\ out.dec # <<>> /\ Len(out.dec) < Len(payload)

\* C8: WriteFile with a nil destination or source, and ReadFile with a nil
\* source, return an error before a byte is written or read.
C8_NullRejection ==
  /\ (wres.dstNil \/ wres.srcNil) =>
       /\ wres.err = "nil" /\ wres.nWritten = 0
       /\ Dst = <<>> /\ wres.srcRead = 0 /\ wres.compLog = <<>>
  /\ rres.srcNil => (rres.err = "nil" /\ rres.stage = "nil" /\ Handle = NilHandle)

C8_Witness == pc = "wfailed" /\ wres.srcNil /\ ~wres.dstNil /\ payload # <<>>

\* C9: a header whose MimeType or OriginalName is exactly 65535 bytes long
\* round-trips through WriteFile and ReadFile.
C9_BoundaryRoundTrip ==
  (ReadBack /\ (Len(Info.MimeType) = BoundaryLen \/ Len(Info.OriginalName) = BoundaryLen)) =>
    /\ rres.err = "none"
    /\ SameHeader(Handle.Header, Info)

\* SetReadMode(DecompressReadMode) had to construct the decompressor and
\* the construction failed
ConstructionFailed ==
  /\ last.op = "SetReadMode" /\ last.mode = DecompressReadMode
  /\ last.why # "none"

\* C10 as stated: the failed construction is returned to the caller of
\* SetReadMode as an error.
C10_ReturnedAsError == ConstructionFailed => last.res = "error"

\* the bytes at the raw source's position are a compressed-stream header
ValidStreamHeader(r) ==
  Remaining(r) >= Len(GzipHeader)
    /\ SubSeq(r.data, r.pos + 1, r.pos + Len(GzipHeader)) = GzipHeader

\* C10, amended: the failed construction surfaces at that SetReadMode call,
\* as a panic carrying the decompressor's error, and never at a later Read:
\* the call succeeds exactly when the bytes are a compressed-stream header.
C10_SurfacedAtCall ==
  [][(last'.op = "SetReadMode" /\ last'.mode = DecompressReadMode
        /\ handle.decompressSource = Nil) =>
       IF ValidStreamHeader(Handle.rawSource)
       THEN last'.res = "ok" /\ handle'.decompressSource # Nil
       ELSE /\ last'.res = "panic" /\ last'.why # "none"
            /\ pc' = "crashed"
            /\ handle'.decompressSource = Nil
            /\ handle'.currentSource = handle.currentSource
    ]_vars

C10_Witness == ConstructionFailed /\ last.res = "panic" /\ last.why = "badheader"

\* WriteFile returned before the payload stage
FailedBeforePayload == wres.stage \in {"nil", "magic", "length", "header"}

\* the compressor was opened, written to only between its opening and the
\* flush, flushed once and then closed once, no call after the close
FlushedThenClosed(log) ==
  /\ Len(log) >= 3
  /\ log[1] = "NewWriter"
  /\ \A j \in 2..(Len(log) - 2) : log[j] = "Write"
  /\ log[Len(log) - 1] = "Flush"
  /\ log[Len(log)] = "Close"

\* C11: when WriteFile has returned, either it failed before the payload
\* stage and opened no compressor, or it opened one, and then the
\* compressor was flushed and after that closed before the return, whether
\* the copy from the source succeeded or failed.
C11_CompressorClosed ==
  wres.err # "unset" =>
    IF FailedBeforePayload
    THEN wres.compLog = <<>>
    ELSE wres.stage \in {"payload", "done"} /\ FlushedThenClosed(wres.compLog)

\* the source failed in the middle of the copy, after bytes went to the
\* compressor
C11_Witness ==
  /\ pc = "wfailed" /\ wres.stage = "payload" /\ wres.err = "io"
  /\ wres.srcRead > 0 /\ wres.srcRead < Len(payload) /\ ~wres.dstFailed
  /\ wres.compLog = <<"NewWriter", "Write", "Flush", "Close">>

\* the bytes of the handle's mode that were still to be read when WriteTo
\* was called reached the writer (told for the handles read in one mode only)
DeliveredToEnd ==
  /\ (last.mode = RawReadMode /\ nCtor = 0) =>
       out.raw \o sink = SubSeq(Stream, 4 + DeclaredH(Stream) + 1, Len(Stream))
  /\ (last.mode = DecompressReadMode /\ ReadBack /\ out.raw = <<>>) =>
       out.dec \o sink = payload

\* C12: WriteTo(w) is reading the handle to the end in its current mode,
\* writing those bytes to w, and then Close: in either mode it returns
\* having delivered the current-mode bytes and leaves the handle closed.
C12_WriteToReadsToEndThenCloses ==
  last.op = "WriteTo" =>
    /\ last.res = "ok" /\ pc = "closed"
    /\ closed.dec = (handle.decompressSource # Nil)
    /\ closed.raw = closable
    /\ DeliveredToEnd

====
